---- MODULE Spec2Model ----
(***************************************************************************)
(* Model of the book-summarizer backend: the Levenshtein similarity        *)
(* scorer, the Google Books catalog matcher and the three variants of the  *)
(* POST /api/summary handler (first variant, free-text variant with        *)
(* follow-up loop, JSON-schema variant with parse retry and continuation). *)
(***************************************************************************)
EXTENDS Integers, Sequences, FiniteSets, TLC

VARIABLES
    \* ---- similarity scorer applied to one pair of strings ----
    sa, sb, sdone, sscore,
    \* ---- one POST /api/summary request ----
    variant,        \* which handler serves the request
    pc,             \* position of the handler: the await it is suspended at
    req,            \* req.body of the request not yet read: title and num
    title,          \* the handler's title / titleRaw once it has read req.body
    num,            \* the handler's num after its clamping statements
    mdata,          \* the catalog reply findBestBook worked on (its local `data`)
    book,           \* result of findBestBook
    tries,          \* parse re-prompts made so far
    parsed,         \* result of extractJSON on the last structured reply
    validParse,     \* whether that result was truthy and of type object
    intro,          \* introPart of the free-text variant
    sentences,      \* the collected sentence list
    attempts,       \* attemptCont / attempts: continuation rounds made so far
    supplied,       \* number of sentence units the replies have yielded so far
    response,       \* body handed to res.json
    responses,      \* number of res.json calls
    site,           \* which return statement of the handler sent the response
    catalogCalls, genCalls, contCalls,  \* external calls issued
    completed,      \* external calls that have returned or failed
    longest,        \* greatest length the variable `sentences` has had
    \* ---- the sentence splitters applied to one text ----
    xtext, xdone, xschema, xschemaAgain, xfree, xfreeAgain,
    \* ---- the browser client: the page with its two click listeners ----
    legacyInputs,   \* whether the page has the #lang and #tone elements
    inProgress,     \* the guard flag of the second listener
    disabled,       \* btn.disabled
    gfetch, gjson,  \* invocations of the guarded listener awaiting fetch / res.json
    ufetch, ujson,  \* invocations of generate awaiting fetch / res.json
    clicks,         \* click events dispatched on the button so far
    blocked,        \* clicks the guarded listener returned from at its guard
    started,        \* requests the guarded listener has started
    introEl, summaryEl   \* what the two output elements show

svars == <<sa, sb, sdone, sscore>>
hvars == <<variant, pc, req, title, num, mdata, book, tries, parsed, validParse, intro, sentences,
           attempts, supplied, response, responses, site,
           catalogCalls, genCalls, contCalls, completed, longest>>
xvars == <<xtext, xdone, xschema, xschemaAgain, xfree, xfreeAgain>>
cvars == <<legacyInputs, inProgress, disabled, gfetch, gjson, ufetch, ujson, clicks, blocked,
           started, introEl, summaryEl>>
vars == <<svars, hvars, xvars, cvars>>
\* what a request handler leaves alone
others == <<svars, xvars, cvars>>

\* ------------------------------------------------------------------------
\* Bounds of the model
\* ------------------------------------------------------------------------
MaxLen == 3        \* longest string handed to the similarity scorer
MaxItems == 3      \* most items in one catalog reply
MaxReply == 2      \* most array elements in one structured generator reply
MaxText == 4       \* longest text handed to the sentence splitters
MaxClicks == 3     \* click events dispatched on the button of one page

\* ------------------------------------------------------------------------
\* Strings: sequences of characters over a small alphabet with both cases
\* ------------------------------------------------------------------------
Alphabet == {"a", "A", "b"}

toLowerCase(c) == IF c = "A" THEN "a" ELSE c

StrsUpTo(n) == UNION {[1..k -> Alphabet] : k \in 0..n}

Max(x, y) == IF x >= y THEN x ELSE y
Min3(x, y, z) ==
    LET xy == IF x <= y THEN x ELSE y
    IN  IF xy <= z THEN xy ELSE z

\* A score is the rational num/den (den > 0); 1 - dist/maxLen = (maxLen-dist)/maxLen
Score(n, d) == [num |-> n, den |-> d]
ScoreEq(s, t) == s.num * t.den = t.num * s.den
ScoreLt(s, t) == s.num * t.den < t.num * s.den
ScoreGe(s, t) == ~ScoreLt(s, t)
Zero == Score(0, 1)
One == Score(1, 1)

\* levenshtein whose cost test lower-cases only the first string's character
levenshteinOneSidedCase(a, b) ==
    IF a = <<>> \/ b = <<>> THEN Max(Len(a), Len(b))
    ELSE
        LET m == Len(a)
            n == Len(b)
            dp[i \in 0..m, j \in 0..n] ==
                IF j = 0 THEN i
                ELSE IF i = 0 THEN j
                ELSE LET cost == IF toLowerCase(a[i]) = b[j] THEN 0 ELSE 1
                     IN  Min3(dp[i-1, j] + 1, dp[i, j-1] + 1, dp[i-1, j-1] + cost)
        IN  dp[m, n]

levenshtein(a, b) ==
    IF a = <<>> \/ b = <<>> THEN Max(Len(a), Len(b))
    ELSE
        LET m == Len(a)
            n == Len(b)
            dp[i \in 0..m, j \in 0..n] ==
                IF j = 0 THEN i
                ELSE IF i = 0 THEN j
                ELSE LET cost == IF toLowerCase(a[i]) = toLowerCase(b[j]) THEN 0 ELSE 1
                     IN  Min3(dp[i-1, j] + 1, dp[i, j-1] + 1, dp[i-1, j-1] + cost)
        IN  dp[m, n]

similarityScore(a, b) ==
    IF a = <<>> \/ b = <<>> THEN Zero
    ELSE
        LET dist == levenshtein(a, b)
            maxLen == Max(Len(a), Len(b))
        IN  IF maxLen = 0 THEN One
            ELSE Score(maxLen - dist, maxLen)

\* ------------------------------------------------------------------------
\* JavaScript string helpers on character sequences
\* ------------------------------------------------------------------------
NL == "\n"
CR == "\r"
Whitespace == {" ", NL, CR}
Terminal == {".", "?", "!"}
Dashes == {"-"}

RECURSIVE TrimStart(_)
TrimStart(s) ==
    IF s # <<>> /\ Head(s) \in Whitespace THEN TrimStart(Tail(s)) ELSE s

RECURSIVE TrimEnd(_)
TrimEnd(s) ==
    IF s # <<>> /\ s[Len(s)] \in Whitespace THEN TrimEnd(SubSeq(s, 1, Len(s) - 1)) ELSE s

\* a trim that removes nothing
TrimNothing(s) == s

\* String.prototype.trim
Trim(s) == TrimEnd(TrimStart(s))

\* Array.prototype.join
RECURSIVE Join(_, _)
Join(list, sep) ==
    IF list = <<>> THEN <<>>
    ELSE IF Len(list) = 1 THEN list[1]
    ELSE list[1] \o sep \o Join(Tail(list), sep)

\* a slice that keeps the last n elements
SliceFromEnd(list, n) ==
    IF Len(list) > n THEN SubSeq(list, Len(list) - n + 1, Len(list)) ELSE list

\* Array.prototype.slice(0, n)
Slice(list, n) == IF Len(list) > n THEN SubSeq(list, 1, n) ELSE list

\* .filter(Boolean) on a list of strings: drops the empty ones
RECURSIVE FilterNonEmpty(_)
FilterNonEmpty(list) ==
    IF list = <<>> THEN <<>>
    ELSE IF Head(list) = <<>> THEN FilterNonEmpty(Tail(list))
    ELSE <<Head(list)>> \o FilterNonEmpty(Tail(list))

RECURSIVE MapTrim(_)
MapTrim(list) ==
    IF list = <<>> THEN <<>> ELSE <<Trim(Head(list))>> \o MapTrim(Tail(list))

\* text.split(/\r?\n/)
RECURSIVE SplitLinesFrom(_, _, _, _)
SplitLinesFrom(text, i, cur, out) ==
    IF i > Len(text) THEN Append(out, cur)
    ELSE IF text[i] = NL
         THEN LET line == IF cur # <<>> /\ cur[Len(cur)] = CR
                          THEN SubSeq(cur, 1, Len(cur) - 1) ELSE cur
              IN  SplitLinesFrom(text, i + 1, <<>>, Append(out, line))
         ELSE SplitLinesFrom(text, i + 1, Append(cur, text[i]), out)

SplitLines(text) == SplitLinesFrom(text, 1, <<>>, <<>>)

\* index after the whitespace run that starts at i
RECURSIVE SkipWhitespace(_, _)
SkipWhitespace(c, i) ==
    IF i <= Len(c) /\ c[i] \in Whitespace THEN SkipWhitespace(c, i + 1) ELSE i

\* c.split(/(?<=[.?!])\s+/): cut at each whitespace run that follows a
\* terminal punctuation mark; the mark stays with the unit before the cut
RECURSIVE SplitAfterTerminalFrom(_, _, _, _)
SplitAfterTerminalFrom(c, i, cur, out) ==
    IF i > Len(c) THEN Append(out, cur)
    ELSE IF c[i] \in Whitespace /\ i > 1 /\ c[i - 1] \in Terminal
         THEN SplitAfterTerminalFrom(c, SkipWhitespace(c, i), <<>>, Append(out, cur))
         ELSE SplitAfterTerminalFrom(c, i + 1, Append(cur, c[i]), out)

SplitAfterTerminal(c) == SplitAfterTerminalFrom(c, 1, <<>>, <<>>)

RECURSIVE SplitChunks(_)
SplitChunks(chunks) ==
    IF chunks = <<>> THEN <<>>
    ELSE FilterNonEmpty(MapTrim(SplitAfterTerminal(Head(chunks))))
         \o SplitChunks(Tail(chunks))

\* splitSentences of the schema variant
splitSentences(text) ==
    IF text = <<>> THEN <<>>
    ELSE SplitChunks(FilterNonEmpty(MapTrim(SplitLines(text))))

\* a replace that removes one leading dash only
StripOneLeadingDash(s) ==
    IF s # <<>> /\ Head(s) \in Dashes THEN Tail(s) ELSE s

\* s.replace(/^[\-\s]+/, "")
RECURSIVE StripLeadingDashes(_)
StripLeadingDashes(s) ==
    IF s # <<>> /\ Head(s) \in (Dashes \cup Whitespace)
    THEN StripLeadingDashes(Tail(s)) ELSE s

RECURSIVE MapStripDashes(_)
MapStripDashes(list) ==
    IF list = <<>> THEN <<>>
    ELSE <<Trim(StripLeadingDashes(Head(list)))>> \o MapStripDashes(Tail(list))

\* splitIntoSentences of the free-text variant
splitIntoSentences(text) ==
    IF text = <<>> THEN <<>>
    ELSE FilterNonEmpty(MapStripDashes(
             SplitChunks(FilterNonEmpty(MapTrim(SplitLines(text))))))

\* ------------------------------------------------------------------------
\* Catalog matcher
\* ------------------------------------------------------------------------
Threshold == Score(45, 100)

\* findBestBook returns null
NoBook == [null |-> TRUE, title |-> <<>>]

\* scored.sort((a,b) => b.score - a.score): stable, descending by score
\* an unstable sort: an element goes before the elements of equal score
RECURSIVE InsertByScoreUnstable(_, _)
InsertByScoreUnstable(sorted, e) ==
    IF sorted = <<>> THEN <<e>>
    ELSE IF ~ScoreLt(e.score, Head(sorted).score) THEN <<e>> \o sorted
    ELSE <<Head(sorted)>> \o InsertByScoreUnstable(Tail(sorted), e)

RECURSIVE InsertByScore(_, _)
InsertByScore(sorted, e) ==
    IF sorted = <<>> THEN <<e>>
    ELSE IF ScoreLt(Head(sorted).score, e.score) THEN <<e>> \o sorted
    ELSE <<Head(sorted)>> \o InsertByScore(Tail(sorted), e)

RECURSIVE SortByScoreFrom(_, _, _)
SortByScoreFrom(scored, i, sorted) ==
    IF i > Len(scored) THEN sorted
    ELSE SortByScoreFrom(scored, i + 1, InsertByScore(sorted, scored[i]))

SortByScore(scored) == SortByScoreFrom(scored, 1, <<>>)

\* candidates and their scores, in catalog order
Candidates(items) ==
    [i \in 1..Len(items) |-> [null |-> FALSE, title |-> Trim(items[i])]]

Scored(titleQuery, items) ==
    [i \in 1..Len(items) |->
        [c |-> Candidates(items)[i],
         score |-> similarityScore(titleQuery, Candidates(items)[i].title)]]

\* the catalog reply: the call throws, the body has no items field, or the
\* body has a list of items (each item given by its volumeInfo.title, the
\* empty title standing for a missing one)
CatalogThrows == [kind |-> "throw", items |-> <<>>]
CatalogNoItems == [kind |-> "noItems", items |-> <<>>]
CatalogItems(items) == [kind |-> "items", items |-> items]
\* no catalog reply at hand (before the call, and once findBestBook's frame is gone)
NoCatalog == [kind |-> "none", items |-> <<>>]

\* findBestBook that answers a failed catalog call with the query itself
findBestBookFallsBackToQuery(titleQuery, data) ==
    IF data.kind = "throw" THEN [null |-> FALSE, title |-> titleQuery]
    ELSE IF data.kind = "noItems" \/ Len(data.items) = 0 THEN NoBook
    ELSE
        LET top == SortByScore(Scored(titleQuery, data.items))[1]
        IN  IF ScoreGe(top.score, Threshold) THEN top.c ELSE NoBook

findBestBook(titleQuery, data) ==
    IF data.kind = "throw" THEN NoBook
    ELSE IF data.kind = "noItems" \/ Len(data.items) = 0 THEN NoBook
    ELSE
        LET top == SortByScore(Scored(titleQuery, data.items))[1]
        IN  IF ScoreGe(top.score, Threshold) THEN top.c ELSE NoBook

\* ------------------------------------------------------------------------
\* JavaScript values of req.body.num
\* ------------------------------------------------------------------------
JsUndefined == [t |-> "undefined", v |-> 0]
JsNaN == [t |-> "NaN", v |-> 0]
JsText == [t |-> "string", v |-> 0]          \* a non-numeric string
JsNumber(n) == [t |-> "number", v |-> n]

\* parseInt(x, 10)
parseInt(x) == IF x.t = "number" THEN x ELSE JsNaN
\* !x
Falsy(x) == x.t \in {"undefined", "NaN"} \/ (x.t = "number" /\ x.v = 0)
\* x || d
OrElse(x, d) == IF Falsy(x) THEN JsNumber(d) ELSE x
\* x > n and x < n (false for undefined, NaN and non-numeric strings)
Gt(x, n) == x.t = "number" /\ x.v > n
Lt(x, n) == x.t = "number" /\ x.v < n

DefaultNum == 5
MinNum == 1
MaxNum == 70
MaxTries == 2       \* parse re-prompts
MaxRounds == 3      \* continuation rounds

\* schema variant: parseInt(req.body.num, 10) || 5, then < 1 and > 70
ClampSchema(raw) ==
    LET n0 == OrElse(parseInt(raw), DefaultNum)
        n1 == IF Lt(n0, MinNum) THEN JsNumber(MinNum) ELSE n0
    IN  IF Gt(n1, MaxNum) THEN JsNumber(MaxNum) ELSE n1

\* free-text variant: default 5, parseInt(num) || 5, then > 70 and < 1
ClampFreeText(raw) ==
    LET d  == IF raw.t = "undefined" THEN JsNumber(DefaultNum) ELSE raw
        n0 == OrElse(parseInt(d), DefaultNum)
        n1 == IF Gt(n0, MaxNum) THEN JsNumber(MaxNum) ELSE n0
    IN  IF Lt(n1, MinNum) THEN JsNumber(MinNum) ELSE n1

\* first variant: if (!num || num > 70) num = 70
ClampFirst(raw) ==
    IF Falsy(raw) \/ Gt(raw, MaxNum) THEN JsNumber(MaxNum) ELSE raw

\* ------------------------------------------------------------------------
\* JSON values and generator replies
\* ------------------------------------------------------------------------
NotArray == [isArray |-> FALSE, items |-> <<>>]
ArrayOf(items) == [isArray |-> TRUE, items |-> items]

JNull == [type |-> "null", truthy |-> FALSE, items |-> <<>>, exists |-> "absent",
          corrected_title |-> <<>>, intro |-> <<>>, summary_sentences |-> NotArray]
JFalse == [JNull EXCEPT !.type = "boolean"]
JTrue == [JNull EXCEPT !.type = "boolean", !.truthy = TRUE]
JZero == [JNull EXCEPT !.type = "number"]
JFive == [JNull EXCEPT !.type = "number", !.truthy = TRUE]
JString == [JNull EXCEPT !.type = "string", !.truthy = TRUE]
JArray(items) == [JNull EXCEPT !.type = "array", !.truthy = TRUE, !.items = items]
JObject(ex, ct, in, ss) ==
    [JNull EXCEPT !.type = "object", !.truthy = TRUE, !.exists = ex,
                  !.corrected_title = ct, !.intro = in, !.summary_sentences = ss]

\* typeof v === "object" (true of null, arrays and objects)
TypeofObject(v) == v.type \in {"null", "array", "object"}
\* property reads on a parsed value: undefined unless it is an object with them
SummarySentencesOf(v) == IF v.type = "object" THEN v.summary_sentences ELSE NotArray
CorrectedTitleOf(v) == IF v.type = "object" THEN v.corrected_title ELSE <<>>
IntroOf(v) == IF v.type = "object" THEN v.intro ELSE <<>>
\* parsed.exists === "false": a comparison with the string, never true
ExistsComparedToString(v) == v.type = "object" /\ v.exists = "\"false\""
ExistsIsFalse(v) == v.type = "object" /\ v.exists = "false"

\* what the handler still reads of parsed once the sentence list is built:
\* parsed.corrected_title and parsed.intro, for the response (an exists that
\* is not false reads like a missing one)
ReadLater(v) ==
    [v EXCEPT !.exists = IF v.exists = "false" THEN "false" ELSE "absent",
              !.items = <<>>,
              !.summary_sentences = NotArray]

\* an array element that is not a string (s.trim is not a function)
NonString == <<"<number>">>
HasNonString(items) == \E i \in 1..Len(items) : items[i] = NonString

\* A reply of the text-generation service: the call rejects, or it returns a
\* text; JSON.parse of the whole text gives `whole` when wholeOk, and
\* JSON.parse of its first "{" .. last "}" span gives `sub` when subOk.
Rejected == [rejects |-> TRUE, text |-> <<>>, wholeOk |-> FALSE, whole |-> JNull,
             braces |-> FALSE, subOk |-> FALSE, sub |-> JNull]
\* a text that is no JSON and has no braces
PlainReply(t) == [Rejected EXCEPT !.rejects = FALSE, !.text = t]
\* a text that is the JSON value v
WholeJson(t, v) == [Rejected EXCEPT !.rejects = FALSE, !.text = t,
                                    !.wholeOk = TRUE, !.whole = v]
\* a text that has the JSON object v between prose
WrappedJson(t, v) == [Rejected EXCEPT !.rejects = FALSE, !.text = t,
                                      !.braces = TRUE, !.subOk = TRUE, !.sub = v]
\* a text with braces that hold no JSON
BadBraces(t) == [Rejected EXCEPT !.rejects = FALSE, !.text = t, !.braces = TRUE]

extractJSON(r) ==
    IF r.text = <<>> THEN JNull
    ELSE IF r.wholeOk THEN r.whole
    ELSE IF r.braces
         THEN IF r.subOk THEN r.sub ELSE JNull
         ELSE JNull

\* ------------------------------------------------------------------------
\* Inputs of the model
\* ------------------------------------------------------------------------
Variants == {"first", "freetext", "schema"}

RequestTitles == {<<>>, <<" ">>, <<" ", "a", "b">>}
RawNums == {JsUndefined, JsText, JsNumber(-3), JsNumber(0), JsNumber(1),
            JsNumber(2), JsNumber(71)}
Requests == [title : RequestTitles, num : RawNums]
\* req.body once the handler has read it
NoRequest == [title |-> <<>>, num |-> JsUndefined]

CatalogTitles == {<<>>, <<"a", "b">>, <<"A", "b">>, <<"b", "b", "a">>, <<"a">>,
                  <<"a", "b", " ">>}
CatalogReplies ==
    {CatalogThrows, CatalogNoItems}
    \cup {CatalogItems(items) : items \in UNION {[1..k -> CatalogTitles] : k \in 0..MaxItems}}

\* the sentences of the model: "5" and "y."
Elements == {<<"5">>, <<" ", "y", ".", " ">>, <<" ">>}
ElementSeqs ==
    UNION {[1..k -> Elements] : k \in 0..MaxReply}
    \cup {<<NonString>>, <<<<"5">>, NonString>>}

ModelTitle == <<"T">>
ModelIntro == <<"i">>
Objects ==
    {JObject(ex, m[1], m[2], ss) :
        ex \in {"true", "false", "absent"},
        m \in {<<<<>>, <<>>>>, <<ModelTitle, ModelIntro>>},
        ss \in {NotArray} \cup {ArrayOf(items) : items \in ElementSeqs}}

\* the text of a JSON value other than the number 5 is not modelled further
JsonText == <<"{", "}">>
StructuredReplies ==
    {Rejected, BadBraces(JsonText), PlainReply(<<>>), PlainReply(<<"y", ".">>)}
    \cup {WholeJson(JsonText, v) : v \in {JNull, JFalse, JTrue, JZero, JString, JArray(<<>>)}}
    \cup {WholeJson(<<"5">>, JFive)}
    \cup {WholeJson(JsonText, v) : v \in Objects}
    \cup {WrappedJson(<<"y", ".", " ">> \o JsonText, v) :
             v \in {JObject(ex, ModelTitle, ModelIntro, ArrayOf(<<<<"5">>>>)) :
                       ex \in {"true", "false"}}}

\* the replies to a continuation request: the call rejects, a text that is
\* no JSON, the JSON number 5, or a JSON array
ContinuationTexts ==
    {<<>>, <<"5">>, <<"y", ".", " ", "5">>, <<" ", NL, "y", ".", NL>>}
ContinuationReplies ==
    {Rejected, WholeJson(<<"5">>, JFive)}
    \cup {PlainReply(t) : t \in ContinuationTexts}
    \cup {WholeJson(JsonText, JArray(items)) : items \in ElementSeqs}

\* ------------------------------------------------------------------------
\* Responses
\* ------------------------------------------------------------------------
Absent == <<"<absent>">>
JsNullValue == <<"<null>">>
MsgEnterTitle == <<"MSG: enter a title">>
MsgBookNotFound == <<"MSG: book not found, check the title">>
MsgParseFailed == <<"MSG: summary generation failed (model reply parse failure)">>
MsgNoSuchBook == <<"MSG: the book does not exist or lacks a description">>
MsgError == <<"MSG: error">>
MsgNoTitle == <<"MSG: no title">>
MsgSummaryError == <<"MSG: error while generating the summary">>
MsgNoIntro == <<"MSG: could not generate an intro">>

NoNote == <<>>
Note(requested, produced, caution) ==
    <<[requested |-> requested, produced |-> produced, caution |-> caution]>>
Summary(text, note) == [text |-> text, note |-> note]
EmptySummary == Summary(<<>>, NoNote)

Body(found, correctedTitle, in, summary, error) ==
    [found |-> found, correctedTitle |-> correctedTitle, intro |-> in,
     summary |-> summary, error |-> error]
NoResponse == Body("absent", Absent, Absent, Summary(Absent, NoNote), Absent)

NotFoundBody == Body("false", JsNullValue, MsgBookNotFound, EmptySummary, Absent)
ParseFailedBody(b) == Body("true", b.title, MsgParseFailed, EmptySummary, Absent)
CatchBodySchema == Body("false", JsNullValue, MsgError, EmptySummary, Absent)
CatchBodyFreeText == Body("absent", Absent, <<>>, Summary(MsgSummaryError, NoNote), Absent)

\* x || y on strings
OrString(x, y) == IF x = <<>> THEN y ELSE x

\* ------------------------------------------------------------------------
\* The POST /api/summary handlers
\* ------------------------------------------------------------------------
\* res.json without the return: the handler sends and stays where it was
RespondAndContinue(body, at) ==
    /\ response' = body
    /\ responses' = responses + 1
    /\ site' = at
    /\ pc' = pc

Respond(body, at) ==
    /\ response' = body
    /\ responses' = responses + 1
    /\ site' = at
    /\ pc' = "done"

\* the final trim left out
FinalSentencesNoSlice(s, n) == s

\* final trim and the shortfall note
FinalSentences(s, n) == IF Len(s) > n THEN Slice(s, n) ELSE s

\* the shortfall note also put on a full summary
FinalSummaryNoteOffByOne(s, n, caution) ==
    LET final == FinalSentences(s, n)
    IN  Summary(Join(final, <<" ">>),
                IF Len(final) <= n THEN Note(n, Len(final), caution) ELSE NoNote)

FinalSummary(s, n, caution) ==
    LET final == FinalSentences(s, n)
    IN  Summary(Join(final, <<" ">>),
                IF Len(final) < n THEN Note(n, Len(final), caution) ELSE NoNote)

\* the push without its length test
PushAll(s, more, n) == s \o more

\* for (let m of more) if (sentences.length < num) sentences.push(m)
RECURSIVE PushUpTo(_, _, _)
PushUpTo(s, more, n) ==
    IF more = <<>> THEN s
    ELSE PushUpTo(IF Len(s) < n THEN Append(s, Head(more)) ELSE s, Tail(more), n)

\* ---- schema variant ----------------------------------------------------
SchemaFinalBody(s, p) ==
    Body("true", OrString(CorrectedTitleOf(p), book.title), IntroOf(p),
         FinalSummary(s, num.v, FALSE), Absent)

\* a loop head that tests the length only
SchemaLoopUnbounded(s, att, p) ==
    IF Len(s) < num.v
    THEN /\ pc' = "cont"
         /\ contCalls' = contCalls + 1
         /\ sentences' = s
         /\ attempts' = att
         /\ UNCHANGED <<response, responses, site>>
    ELSE /\ sentences' = FinalSentences(s, num.v)
         /\ attempts' = att
         /\ Respond(SchemaFinalBody(s, p), "summary")
         /\ UNCHANGED contCalls

\* head of the continuation loop: another round, or the final response
SchemaLoop(s, att, p) ==
    IF Len(s) < num.v /\ att < MaxRounds
    THEN /\ pc' = "cont"
         /\ contCalls' = contCalls + 1
         /\ sentences' = s
         /\ attempts' = att
         /\ UNCHANGED <<response, responses, site>>
    ELSE /\ sentences' = FinalSentences(s, num.v)
         /\ attempts' = att
         /\ Respond(SchemaFinalBody(s, p), "summary")
         /\ UNCHANGED contCalls

\* the statements after extractJSON of a structured reply
SchemaAfterParse(p, t) ==
    IF (~p.truthy \/ ~TypeofObject(p)) /\ t < MaxTries
    THEN \* re-prompt
         /\ tries' = t + 1
         /\ genCalls' = genCalls + 1
         /\ pc' = "fix"
         /\ parsed' = p
         /\ validParse' = FALSE
         /\ UNCHANGED <<sentences, attempts, supplied, longest, response, responses, site,
                        contCalls>>
    ELSE /\ tries' = t
         /\ validParse' = (p.truthy /\ TypeofObject(p))
         /\ UNCHANGED genCalls
         /\ IF ~p.truthy
            THEN /\ parsed' = p
                 /\ Respond(ParseFailedBody(book), "parseFailed")
                 /\ UNCHANGED <<sentences, attempts, supplied, longest, contCalls>>
            ELSE IF ExistsIsFalse(p)
            THEN /\ parsed' = p
                 /\ Respond(Body("false", OrString(CorrectedTitleOf(p), book.title),
                                 OrString(IntroOf(p), MsgNoSuchBook), EmptySummary, Absent),
                         "nonexistent")
                 /\ UNCHANGED <<sentences, attempts, supplied, longest, contCalls>>
            ELSE IF SummarySentencesOf(p).isArray /\ HasNonString(SummarySentencesOf(p).items)
            THEN \* s.trim is not a function: caught
                 /\ parsed' = p
                 /\ Respond(CatchBodySchema, "error")
                 /\ UNCHANGED <<sentences, attempts, supplied, longest, contCalls>>
            ELSE LET s == IF SummarySentencesOf(p).isArray
                          THEN FilterNonEmpty(MapTrim(SummarySentencesOf(p).items))
                          ELSE <<>>
                 IN  /\ parsed' = ReadLater(p)
                     /\ supplied' = Len(s)
                     /\ longest' = Len(s)
                     /\ SchemaLoop(s, 0, ReadLater(p))

\* the initial structured call issued whatever the matcher returned
SchemaAfterMatchAlwaysGenerates(b) ==
    /\ pc' = "gen"
    /\ genCalls' = genCalls + 1
    /\ UNCHANGED <<response, responses, site>>

\* if (!book) return the not-found body; else the initial structured call
SchemaAfterMatch(b) ==
    IF b.null
    THEN /\ Respond(NotFoundBody, "notFound")
         /\ UNCHANGED genCalls
    ELSE /\ pc' = "gen"
         /\ genCalls' = genCalls + 1
         /\ UNCHANGED <<response, responses, site>>

\* an entry that issues the catalog search and the initial generation together
SchemaReceiveFanOut ==
    /\ variant = "schema"
    /\ pc = "start"
    /\ req' = NoRequest
    /\ title' = Trim(req.title)
    /\ num' = ClampSchema(req.num)
    /\ IF Trim(req.title) = <<>>
       THEN /\ Respond(Body("absent", Absent, Absent, Summary(Absent, NoNote), MsgEnterTitle),
                    "noTitle")
            /\ UNCHANGED <<catalogCalls, genCalls>>
       ELSE /\ pc' = "catalog"
            /\ catalogCalls' = catalogCalls + 1
            /\ genCalls' = genCalls + 1
            /\ UNCHANGED <<response, responses, site>>
    /\ UNCHANGED <<variant, mdata, book, tries, parsed, validParse, intro, sentences,
                   attempts, supplied, contCalls, completed, longest>>

SchemaReceive ==
    /\ variant = "schema"
    /\ pc = "start"
    /\ req' = NoRequest
    /\ title' = Trim(req.title)
    /\ num' = ClampSchema(req.num)
    /\ IF Trim(req.title) = <<>>
       THEN /\ Respond(Body("absent", Absent, Absent, Summary(Absent, NoNote), MsgEnterTitle),
                    "noTitle")
            /\ UNCHANGED catalogCalls
       ELSE /\ pc' = "catalog"
            /\ catalogCalls' = catalogCalls + 1
            /\ UNCHANGED <<response, responses, site>>
    /\ UNCHANGED <<variant, mdata, book, tries, parsed, validParse, intro, sentences,
                   attempts, supplied, genCalls, contCalls, completed, longest>>

SchemaCatalogReply ==
    /\ variant = "schema"
    /\ pc = "catalog"
    /\ \E data \in CatalogReplies :
         /\ mdata' = data
         /\ book' = findBestBook(title, data)
    /\ SchemaAfterMatch(book')
    /\ completed' = completed + 1
    /\ UNCHANGED <<variant, req, title, num, tries, parsed, validParse, intro, sentences, attempts,
                   supplied, longest, catalogCalls, contCalls>>

\* the reply to the initial structured call or to a re-prompt
SchemaStructuredReply ==
    /\ variant = "schema"
    /\ pc \in {"gen", "fix"}
    /\ mdata' = NoCatalog
    /\ \E r \in StructuredReplies :
         IF r.rejects
         THEN /\ Respond(CatchBodySchema, "error")
              /\ UNCHANGED <<tries, parsed, validParse, sentences, attempts, supplied,
                             longest, genCalls, contCalls>>
         ELSE SchemaAfterParse(extractJSON(r), tries)
    /\ completed' = completed + 1
    /\ UNCHANGED <<variant, req, title, num, book, intro, catalogCalls>>

SchemaContinuationReply ==
    /\ variant = "schema"
    /\ pc = "cont"
    /\ \E r \in ContinuationReplies :
         IF r.rejects
         THEN /\ Respond(CatchBodySchema, "error")
              /\ UNCHANGED <<sentences, attempts, supplied, longest, contCalls>>
         ELSE LET contParsed == extractJSON(r)
              IN  IF contParsed.type = "array"
                  THEN IF HasNonString(contParsed.items)
                       THEN /\ Respond(CatchBodySchema, "error")
                            /\ UNCHANGED <<sentences, attempts, supplied, longest, contCalls>>
                       ELSE LET more == FilterNonEmpty(MapTrim(contParsed.items))
                            IN  /\ supplied' = supplied + Len(more)
                                /\ longest' = Max(longest, Len(PushUpTo(sentences, more, num.v)))
                                /\ SchemaLoop(PushUpTo(sentences, more, num.v),
                                              attempts + 1, parsed)
                  ELSE LET guessed == splitSentences(r.text)
                       IN  /\ supplied' = supplied + Len(guessed)
                           /\ longest' = Max(longest, Len(PushUpTo(sentences, guessed, num.v)))
                           /\ SchemaLoop(PushUpTo(sentences, guessed, num.v),
                                         attempts + 1, parsed)
    /\ completed' = completed + 1
    /\ UNCHANGED <<variant, req, title, num, mdata, book, tries, parsed, validParse, intro,
                   catalogCalls, genCalls>>

\* ---- free-text variant -------------------------------------------------
IntroMark == "[INTRO]"
SummaryMark == "[SUMMARY]"
NonexistentPhrase == "<nonexistent book>"

\* text.split("[SUMMARY]")
RECURSIVE SplitOnMarkFrom(_, _, _, _)
SplitOnMarkFrom(text, i, cur, out) ==
    IF i > Len(text) THEN Append(out, cur)
    ELSE IF text[i] = SummaryMark
         THEN SplitOnMarkFrom(text, i + 1, <<>>, Append(out, cur))
         ELSE SplitOnMarkFrom(text, i + 1, Append(cur, text[i]), out)

SplitOnSummaryMark(text) == SplitOnMarkFrom(text, 1, <<>>, <<>>)

\* s.replace("[INTRO]", ""): removes the first occurrence only
RECURSIVE RemoveFirstIntroMark(_)
RemoveFirstIntroMark(s) ==
    IF s = <<>> THEN <<>>
    ELSE IF Head(s) = IntroMark THEN Tail(s)
    ELSE <<Head(s)>> \o RemoveFirstIntroMark(Tail(s))

IntroPart(fullOutput) == Trim(RemoveFirstIntroMark(SplitOnSummaryMark(fullOutput)[1]))
SummaryPart(fullOutput) ==
    LET parts == SplitOnSummaryMark(fullOutput)
    IN  IF Len(parts) >= 2 THEN Trim(parts[2]) ELSE <<>>

\* introPart.includes("...")
Includes(s, token) == \E i \in 1..Len(s) : s[i] = token

FullOutputs ==
    { <<>>,
      <<IntroMark, "i", NL, SummaryMark, NL, "x", ".", NL, "y", ".">>,
      <<"x", ".">>,
      <<IntroMark, NonexistentPhrase, SummaryMark>>,
      <<IntroMark, NonexistentPhrase, " ", "i", NL, SummaryMark, "x", ".">>,
      <<SummaryMark, "x", ".", " ", "y", ".", " ", "-", " ", "x", ".">>,
      <<IntroMark, "i", SummaryMark, " ", "-">> }
InitialReplies == {Rejected} \cup {PlainReply(t) : t \in FullOutputs}

FollowUpTexts ==
    {<<>>, <<"x", ".">>, <<"y", ".", " ", "x", ".">>,
     <<"-", " ", "y", ".", NL, NL, " ", "x", ".">>}
FollowUpReplies == {Rejected} \cup {PlainReply(t) : t \in FollowUpTexts}

FreeTextFinalBody(s, in) ==
    Body("absent", Absent, OrString(in, MsgNoIntro), FinalSummary(s, num.v, TRUE), Absent)

\* head of the follow-up loop: another round, or the final response
FreeTextLoop(s, att, in) ==
    IF Len(s) < num.v /\ att < MaxRounds
    THEN /\ pc' = "followup"
         /\ attempts' = att + 1
         /\ contCalls' = contCalls + 1
         /\ sentences' = s
         /\ UNCHANGED <<response, responses, site>>
    ELSE /\ sentences' = FinalSentences(s, num.v)
         /\ attempts' = att
         /\ Respond(FreeTextFinalBody(s, in), "summary")
         /\ UNCHANGED contCalls

FreeTextReceive ==
    /\ variant = "freetext"
    /\ pc = "start"
    /\ req' = NoRequest
    /\ title' = Trim(req.title)
    /\ IF Trim(req.title) = <<>>
       THEN /\ num' = OrElse(parseInt(IF req.num.t = "undefined"
                                      THEN JsNumber(DefaultNum) ELSE req.num), DefaultNum)
            /\ Respond(Body("absent", Absent, <<>>, Summary(MsgNoTitle, NoNote), Absent),
                    "noTitle")
            /\ UNCHANGED genCalls
       ELSE /\ num' = ClampFreeText(req.num)
            /\ pc' = "gen"
            /\ genCalls' = genCalls + 1
            /\ UNCHANGED <<response, responses, site>>
    /\ UNCHANGED <<variant, mdata, book, tries, parsed, validParse, intro, sentences,
                   attempts, supplied, catalogCalls, contCalls, completed, longest>>

FreeTextInitialReply ==
    /\ variant = "freetext"
    /\ pc = "gen"
    /\ \E r \in InitialReplies :
         IF r.rejects
         THEN /\ Respond(CatchBodyFreeText, "error")
              /\ UNCHANGED <<intro, sentences, attempts, supplied, longest, contCalls>>
         ELSE LET introPart == IntroPart(r.text)
                  s == splitIntoSentences(SummaryPart(r.text))
              IN  /\ intro' = introPart
                  /\ supplied' = Len(s)
                  /\ longest' = Len(s)
                  /\ IF introPart # <<>> /\ Includes(introPart, NonexistentPhrase)
                     THEN /\ Respond(Body("absent", Absent, introPart, EmptySummary, Absent),
                                  "nonexistent")
                          /\ sentences' = s
                          /\ UNCHANGED <<attempts, contCalls>>
                     ELSE FreeTextLoop(s, 0, introPart)
    /\ completed' = completed + 1
    /\ UNCHANGED <<variant, req, title, num, mdata, book, tries, parsed, validParse,
                   catalogCalls, genCalls>>

FreeTextFollowUpReply ==
    /\ variant = "freetext"
    /\ pc = "followup"
    /\ \E r \in FollowUpReplies :
         IF r.rejects
         THEN /\ Respond(CatchBodyFreeText, "error")
              /\ UNCHANGED <<sentences, attempts, supplied, longest, contCalls>>
         ELSE LET moreSentences == splitIntoSentences(r.text)
              IN  /\ supplied' = supplied + Len(moreSentences)
                  /\ longest' = Max(longest, Len(Slice(sentences \o moreSentences, num.v)))
                  /\ FreeTextLoop(Slice(sentences \o moreSentences, num.v), attempts, intro)
    /\ completed' = completed + 1
    /\ UNCHANGED <<variant, req, title, num, mdata, book, tries, parsed, validParse, intro,
                   catalogCalls, genCalls>>

\* ---- first variant -----------------------------------------------------
FirstReceive ==
    /\ variant = "first"
    /\ pc = "start"
    /\ req' = NoRequest
    /\ title' = req.title
    /\ IF req.title = <<>>
       THEN /\ Respond(Body("absent", Absent, <<>>, Summary(MsgNoTitle, NoNote), Absent),
                    "noTitle")
            /\ UNCHANGED <<num, genCalls>>
       ELSE /\ num' = ClampFirst(req.num)
            /\ pc' = "gen"
            /\ genCalls' = genCalls + 1
            /\ UNCHANGED <<response, responses, site>>
    /\ UNCHANGED <<variant, mdata, book, tries, parsed, validParse, intro, sentences,
                   attempts, supplied, catalogCalls, contCalls, completed, longest>>

FirstReply ==
    /\ variant = "first"
    /\ pc = "gen"
    /\ \E r \in InitialReplies :
         IF r.rejects
         THEN /\ Respond(Body("absent", Absent, <<>>, Summary(MsgSummaryError, NoNote), Absent),
                      "error")
              /\ UNCHANGED intro
         ELSE /\ intro' = IntroPart(r.text)
              /\ Respond(Body("absent", Absent, IntroPart(r.text),
                              Summary(SummaryPart(r.text), NoNote), Absent), "reply")
    /\ completed' = completed + 1
    /\ UNCHANGED <<variant, req, title, num, mdata, book, tries, parsed, validParse, sentences,
                   attempts, supplied, longest, catalogCalls, genCalls, contCalls>>

\* ------------------------------------------------------------------------
\* Specification Spec: one request served by one of the handlers
\* ------------------------------------------------------------------------
HandlerInit ==
    /\ title = <<>>
    /\ num = JsUndefined
    /\ mdata = NoCatalog
    /\ book = NoBook
    /\ tries = 0
    /\ parsed = JNull
    /\ validParse = FALSE
    /\ intro = <<>>
    /\ sentences = <<>>
    /\ attempts = 0
    /\ supplied = 0
    /\ response = NoResponse
    /\ responses = 0
    /\ site = "none"
    /\ catalogCalls = 0
    /\ genCalls = 0
    /\ contCalls = 0
    /\ completed = 0
    /\ longest = 0

ScorerIdle ==
    /\ sa = <<>>
    /\ sb = <<>>
    /\ sdone = FALSE
    /\ sscore = Zero

SplitterIdle ==
    /\ xtext = <<>>
    /\ xdone = FALSE
    /\ xschema = <<>>
    /\ xschemaAgain = <<>>
    /\ xfree = <<>>
    /\ xfreeAgain = <<>>

\* no request handled: the state of the server variables in the other specifications
HandlerOff ==
    /\ variant = "schema"
    /\ pc = "off"
    /\ req = NoRequest
    /\ HandlerInit

PageLoaded ==
    /\ inProgress = FALSE
    /\ disabled = FALSE
    /\ gfetch = 0
    /\ gjson = 0
    /\ ufetch = 0
    /\ ujson = 0
    /\ clicks = 0
    /\ blocked = 0
    /\ started = 0
    /\ introEl = "initial"
    /\ summaryEl = "initial"

ClientIdle ==
    /\ legacyInputs = FALSE
    /\ PageLoaded

Init ==
    /\ variant \in Variants
    /\ pc = "start"
    /\ req \in Requests
    /\ HandlerInit
    /\ ScorerIdle
    /\ SplitterIdle
    /\ ClientIdle

Next ==
    \/ SchemaReceive /\ UNCHANGED others
    \/ SchemaCatalogReply /\ UNCHANGED others
    \/ SchemaStructuredReply /\ UNCHANGED others
    \/ SchemaContinuationReply /\ UNCHANGED others
    \/ FreeTextReceive /\ UNCHANGED others
    \/ FreeTextInitialReply /\ UNCHANGED others
    \/ FreeTextFollowUpReply /\ UNCHANGED others
    \/ FirstReceive /\ UNCHANGED others
    \/ FirstReply /\ UNCHANGED others

Spec == Init /\ [][Next]_vars

\* every external call returns or fails, and the handler then runs on
FairSpec == Spec /\ WF_vars(Next)

\* ------------------------------------------------------------------------
\* Specification SimSpec: similarityScore applied to every pair of strings
\* ------------------------------------------------------------------------
SimInit ==
    /\ sa \in StrsUpTo(MaxLen)
    /\ sb \in StrsUpTo(MaxLen)
    /\ sdone = FALSE
    /\ sscore = Zero
    /\ HandlerOff
    /\ SplitterIdle
    /\ ClientIdle

SimApply ==
    /\ ~sdone
    /\ sdone' = TRUE
    /\ sscore' = similarityScore(sa, sb)
    /\ UNCHANGED <<sa, sb>>
    /\ UNCHANGED <<hvars, xvars, cvars>>

SimNext == SimApply

SimSpec == SimInit /\ [][SimNext]_vars

\* ------------------------------------------------------------------------
\* Specification SplitSpec: both sentence splitters applied to every text,
\* and again to their own output joined with line breaks
\* ------------------------------------------------------------------------
TextAlphabet == {"a", ".", "?", "!", "-", " ", NL}
Texts == UNION {[1..k -> TextAlphabet] : k \in 0..MaxText}

SplitInit ==
    /\ xtext \in Texts
    /\ xdone = FALSE
    /\ xschema = <<>>
    /\ xschemaAgain = <<>>
    /\ xfree = <<>>
    /\ xfreeAgain = <<>>
    /\ HandlerOff
    /\ ScorerIdle
    /\ ClientIdle

SplitApply ==
    /\ ~xdone
    /\ xdone' = TRUE
    /\ xschema' = splitSentences(xtext)
    /\ xschemaAgain' = splitSentences(Join(splitSentences(xtext), <<NL>>))
    /\ xfree' = splitIntoSentences(xtext)
    /\ xfreeAgain' = splitIntoSentences(Join(splitIntoSentences(xtext), <<NL>>))
    /\ UNCHANGED xtext
    /\ UNCHANGED <<svars, hvars, cvars>>

SplitNext == SplitApply

SplitSpec == SplitInit /\ [][SplitNext]_vars

\* ------------------------------------------------------------------------
\* Specification ClientSpec: the page of script.js, whose button has two
\* click listeners: generate (registered first) and the guarded listener
\* ------------------------------------------------------------------------
InputTitles == {<<>>, <<" ">>, <<"a">>}

\* what /api/summary answered, as res.json() gives it: the call rejects (or
\* the body is null), or data whose intro and summary are truthy or not
JsonOutcomes == {[throws |-> TRUE, intro |-> FALSE, summary |-> FALSE]}
                \cup [throws : {FALSE}, intro : BOOLEAN, summary : BOOLEAN]

\* a guard that lets every click through
ClickNeverBlocked == FALSE

\* if (inProgress) return
ClickBlocked == inProgress

\* generate reaches its fetch: #lang and #tone exist and the title is not blank
GenerateStarts(t) == legacyInputs /\ Trim(t) # <<>>

\* the guarded listener reaches its fetch
GuardedStarts(t) == ~ClickBlocked /\ Trim(t) # <<>>

\* a click event: both listeners run, each up to its first await; a user's
\* click is not dispatched on a disabled button, a synthetic event is
Click ==
    /\ clicks < MaxClicks
    /\ \E t \in InputTitles, synthetic \in BOOLEAN :
         /\ synthetic \/ ~disabled
         /\ clicks' = clicks + 1
         /\ ufetch' = IF GenerateStarts(t) THEN ufetch + 1 ELSE ufetch
         /\ blocked' = IF ClickBlocked THEN blocked + 1 ELSE blocked
         /\ gfetch' = IF GuardedStarts(t) THEN gfetch + 1 ELSE gfetch
         /\ started' = IF GuardedStarts(t) THEN started + 1 ELSE started
         /\ inProgress' = IF GuardedStarts(t) THEN TRUE ELSE inProgress
         /\ disabled' = IF GuardedStarts(t) THEN TRUE ELSE disabled
         /\ introEl' = IF GenerateStarts(t) \/ GuardedStarts(t) THEN "loading" ELSE introEl
         /\ summaryEl' = IF GenerateStarts(t) \/ GuardedStarts(t)
                         THEN "generating" ELSE summaryEl
    /\ UNCHANGED <<legacyInputs, gjson, ujson>>

\* catch and finally of the guarded listener
GuardedCatch ==
    /\ introEl' = "error"
    /\ summaryEl' = "empty"
    /\ inProgress' = FALSE
    /\ disabled' = FALSE

\* await fetch of the guarded listener settles
GuardedFetchSettles ==
    /\ gfetch > 0
    /\ gfetch' = gfetch - 1
    /\ \E ok \in BOOLEAN :
         IF ok
         THEN /\ gjson' = gjson + 1
              /\ UNCHANGED <<inProgress, disabled, introEl, summaryEl>>
         ELSE /\ GuardedCatch
              /\ UNCHANGED gjson
    /\ UNCHANGED <<legacyInputs, ufetch, ujson, clicks, blocked, started>>

\* await res.json() of the guarded listener settles
GuardedJsonSettles ==
    /\ gjson > 0
    /\ gjson' = gjson - 1
    /\ \E data \in JsonOutcomes :
         IF data.throws
         THEN GuardedCatch
         ELSE /\ introEl' = IF data.intro THEN "intro" ELSE "noIntro"
              /\ summaryEl' = IF data.summary THEN "summary" ELSE "noSummary"
              /\ inProgress' = FALSE
              /\ disabled' = FALSE
    /\ UNCHANGED <<legacyInputs, gfetch, ufetch, ujson, clicks, blocked, started>>

\* await fetch of generate settles; a rejection ends the invocation
GenerateFetchSettles ==
    /\ ufetch > 0
    /\ ufetch' = ufetch - 1
    /\ \E ok \in BOOLEAN : ujson' = IF ok THEN ujson + 1 ELSE ujson
    /\ UNCHANGED <<legacyInputs, inProgress, disabled, gfetch, gjson, clicks, blocked, started,
                   introEl, summaryEl>>

\* await res.json() of generate settles
GenerateJsonSettles ==
    /\ ujson > 0
    /\ ujson' = ujson - 1
    /\ \E data \in JsonOutcomes :
         IF data.throws
         THEN UNCHANGED <<introEl, summaryEl>>
         ELSE /\ introEl' = IF data.intro THEN "intro" ELSE "noIntroLegacy"
              /\ summaryEl' = IF data.summary THEN "summary" ELSE "noSummaryLegacy"
    /\ UNCHANGED <<legacyInputs, inProgress, disabled, gfetch, gjson, ufetch, clicks, blocked,
                   started>>

ClientInit ==
    /\ legacyInputs \in BOOLEAN
    /\ PageLoaded
    /\ HandlerOff
    /\ ScorerIdle
    /\ SplitterIdle

ClientNext ==
    \/ Click /\ UNCHANGED <<svars, hvars, xvars>>
    \/ GuardedFetchSettles /\ UNCHANGED <<svars, hvars, xvars>>
    \/ GuardedJsonSettles /\ UNCHANGED <<svars, hvars, xvars>>
    \/ GenerateFetchSettles /\ UNCHANGED <<svars, hvars, xvars>>
    \/ GenerateJsonSettles /\ UNCHANGED <<svars, hvars, xvars>>

ClientSpec == ClientInit /\ [][ClientNext]_vars

\* ------------------------------------------------------------------------
\* Properties
\* ------------------------------------------------------------------------
IsCount(n) == n.t = "number" /\ n.v \in MinNum..MaxNum

\* C1: the sentence list the response summary is built from has at most N
\* sentences, and one request issues at most 3 continuation requests
C1_ReconciliationBounded ==
    /\ contCalls <= MaxRounds
    /\ attempts <= MaxRounds
    /\ site = "summary" =>
          /\ Len(sentences) <= num.v
          /\ response.summary.text = Join(sentences, <<" ">>)

\* a request that used all 3 rounds, was supplied more than N sentences and
\* answered with exactly N
C1_Witness ==
    /\ site = "summary"
    /\ contCalls = MaxRounds
    /\ supplied > num.v
    /\ Len(sentences) = num.v

\* C2 (as claimed): at most 2 re-prompts, and when the last structured reply
\* is no parsed object the response is the generation-failed body and no
\* continuation request is issued
C2_ParseFailureSurfaced ==
    variant = "schema" =>
        /\ genCalls <= 1 + MaxTries
        /\ tries <= MaxTries
        /\ (pc \in {"cont", "done"} /\ genCalls >= 1 /\ site # "error" /\ ~validParse) =>
              /\ contCalls = 0
              /\ pc = "done"
              /\ response = ParseFailedBody(book)

\* C3: a book the generator declares nonexistent gets no continuation
\* request, an empty summary and the generator's (or the default) explanation
C3_NonexistentIsFinal ==
    /\ (variant = "schema" /\ pc \in {"cont", "done"} /\ validParse
            /\ parsed.type = "object" /\ parsed.exists = "false") =>
          /\ pc = "done"
          /\ site = "nonexistent"
          /\ contCalls = 0
          /\ response.summary = EmptySummary
          /\ response.intro = IF parsed.intro # <<>> THEN parsed.intro ELSE MsgNoSuchBook
    /\ (variant = "freetext" /\ Includes(intro, NonexistentPhrase)) =>
          /\ pc = "done"
          /\ site = "nonexistent"
          /\ contCalls = 0
          /\ response.summary = EmptySummary
          /\ response.intro = intro

\* the schema variant answering exists:false without an intro
C3_Witness ==
    /\ variant = "schema"
    /\ site = "nonexistent"
    /\ parsed.exists = "false"
    /\ parsed.intro = <<>>
    /\ response.intro = MsgNoSuchBook
    /\ genCalls > 1

\* C4: when the matcher returns NotFound no generation call is issued and
\* the response is the book-not-found body
C4_NotFoundNoGeneration ==
    (variant = "schema" /\ mdata # NoCatalog /\ book.null) =>
        /\ genCalls = 0
        /\ contCalls = 0
        /\ pc = "done"
        /\ response = NotFoundBody

\* a catalog reply with items, none of them a confident match
C4_Witness ==
    /\ variant = "schema"
    /\ mdata.kind = "items"
    /\ Len(mdata.items) = MaxItems
    /\ \A i \in 1..Len(mdata.items) : mdata.items[i] # <<>>
    /\ book.null
    /\ response = NotFoundBody

CatalogFailed(data) ==
    data.kind \in {"throw", "noItems"} \/ (data.kind = "items" /\ data.items = <<>>)
AllBelowThreshold(q, data) ==
    /\ data.kind = "items"
    /\ data.items # <<>>
    /\ \A i \in 1..Len(data.items) :
          ScoreLt(similarityScore(q, Trim(data.items[i])), Threshold)

\* C5: a catalog call that throws, has no items field or has an empty list
\* gives NotFound without a fault, and the client gets the response of a
\* query whose candidates all score below the threshold
C5_CatalogFailureIsNoMatch ==
    (variant = "schema" /\ (CatalogFailed(mdata) \/ AllBelowThreshold(title, mdata))) =>
        /\ book.null
        /\ pc = "done"
        /\ site = "notFound"
        /\ responses = 1
        /\ response = NotFoundBody

\* the catalog call threw and the client got the not-found body
C5_Witness ==
    /\ variant = "schema"
    /\ mdata.kind = "throw"
    /\ site = "notFound"
    /\ response = NotFoundBody

ScoreOfItem(q, data, i) == similarityScore(q, Trim(data.items[i]))
\* the earliest item of maximum score
BestIndex(q, data) ==
    CHOOSE i \in 1..Len(data.items) :
        /\ \A j \in 1..Len(data.items) : ~ScoreLt(ScoreOfItem(q, data, i), ScoreOfItem(q, data, j))
        /\ \A j \in 1..(i - 1) : ScoreLt(ScoreOfItem(q, data, j), ScoreOfItem(q, data, i))

\* C6: on a non-empty list findBestBook returns a candidate iff the maximum
\* score is >= 0.45, and then the earliest candidate of maximum score
C6_BestMatch ==
    (variant = "schema" /\ mdata.kind = "items" /\ mdata.items # <<>>) =>
        LET best == BestIndex(title, mdata)
        IN  IF ScoreLt(ScoreOfItem(title, mdata, best), Threshold)
            THEN book.null
            ELSE book = [null |-> FALSE, title |-> Trim(mdata.items[best])]

\* two different titles tie at the maximum after an accepted lower score
C6_Witness ==
    /\ variant = "schema"
    /\ mdata.kind = "items"
    /\ ~book.null
    /\ \E k, i, j \in 1..Len(mdata.items) :
          /\ k < i
          /\ i < j
          /\ i = BestIndex(title, mdata)
          /\ ScoreEq(ScoreOfItem(title, mdata, i), ScoreOfItem(title, mdata, j))
          /\ Trim(mdata.items[i]) # Trim(mdata.items[j])
          /\ ScoreGe(ScoreOfItem(title, mdata, k), Threshold)
          /\ ScoreLt(ScoreOfItem(title, mdata, k), ScoreOfItem(title, mdata, i))

\* C7: the score is symmetric, lies in [0,1], and is 0 when exactly one of
\* the two strings is empty
C7_ScoreSymmetricBounded ==
    sdone =>
        /\ ScoreEq(sscore, similarityScore(sb, sa))
        /\ ScoreGe(sscore, Zero)
        /\ ScoreGe(One, sscore)
        /\ ((sa = <<>>) # (sb = <<>>)) => ScoreEq(sscore, Zero)

\* two non-empty strings of different length and case with a score strictly
\* between 0 and 1
C7_Witness ==
    /\ sdone
    /\ Len(sa) = MaxLen
    /\ Len(sb) = MaxLen - 1
    /\ \E i \in 1..Len(sb) : sa[i] # sb[i] /\ toLowerCase(sa[i]) = toLowerCase(sb[i])
    /\ ScoreLt(Zero, sscore)
    /\ ScoreLt(sscore, One)

EqualIgnoringCase(a, b) ==
    /\ Len(a) = Len(b)
    /\ \A i \in 1..Len(a) : toLowerCase(a[i]) = toLowerCase(b[i])

\* C8 (as claimed): the score is 1 exactly when the two strings are identical
\* ignoring case, the two empty strings included
C8_OneIffEqualIgnoringCase ==
    sdone => (ScoreEq(sscore, One) <=> EqualIgnoringCase(sa, sb))

\* C9 (as claimed): in every variant the count used in the generation prompt
\* is an integer in [1,70]
C9_CountClamped ==
    genCalls >= 1 => IsCount(num)

\* C10: the summary carries the shortfall note iff the final list is shorter
\* than N, the note states the final count and N, and replies that supplied
\* at least N sentences give exactly N sentences and no note
C10_ShortfallSignalled ==
    site = "summary" =>
        LET n == num.v
            k == Len(sentences)
        IN  /\ response.summary.text = Join(sentences, <<" ">>)
            /\ (response.summary.note # NoNote) <=> (k < n)
            /\ k < n =>
                  /\ Len(response.summary.note) = 1
                  /\ response.summary.note[1].requested = n
                  /\ response.summary.note[1].produced = k
            /\ supplied >= n => (k = n /\ response.summary.note = NoNote)
            /\ supplied < n => k = supplied

\* 3 sentences first and 2 more in round 1: 5 of 5 and no note
C10_Witness ==
    /\ site = "summary"
    /\ num.v = DefaultNum
    /\ contCalls = 1
    /\ supplied = DefaultNum
    /\ Len(sentences) = DefaultNum
    /\ response.summary.note = NoNote

CatchBody == IF variant = "schema" THEN CatchBodySchema ELSE CatchBodyFreeText

\* C11: a request gets exactly one response: none while the handler is
\* suspended at an external call, one once it has returned; a failed catalog
\* call gives the not-found body and a failed generation, re-prompt or
\* continuation call gives the handler's fallback body
C11_ExactlyOneResponse ==
    /\ responses <= 1
    /\ (pc = "done") <=> (responses = 1)
    /\ (pc = "done") <=> (response # NoResponse)
    /\ (variant # "first" /\ site = "error") => response = CatchBody
    /\ (variant = "schema" /\ mdata.kind = "throw") =>
          (pc = "done" /\ response = NotFoundBody)

\* the third continuation call of a request failed and the client got the
\* fallback body
C11_Witness ==
    /\ variant = "schema"
    /\ contCalls = MaxRounds
    /\ completed = catalogCalls + genCalls + contCalls
    /\ site = "error"
    /\ responses = 1
    /\ response = CatchBodySchema

\* C12: each splitter is idempotent: splitting its own output joined with
\* line breaks gives the same sequence of units
C12_SplitterIdempotent ==
    xdone =>
        /\ xschemaAgain = xschema
        /\ xfreeAgain = xfree

\* a text of two lines whose units start with dashes the free-text splitter
\* removes and the schema splitter keeps
C12_Witness ==
    /\ xdone
    /\ \E i \in 1..Len(xtext) : xtext[i] = NL
    /\ Len(xschema) = 2
    /\ Len(xfree) = 2
    /\ xfree # xschema
    /\ \E i \in 1..Len(xfree) : Head(xschema[i]) = "-"

\* C13 (as claimed): the collected sentence list holds no sentence twice
C13_NoDuplicates ==
    \A i, j \in 1..Len(sentences) : i < j => sentences[i] # sentences[j]

IsPrefix(a, b) == Len(a) <= Len(b) /\ SubSeq(b, 1, Len(a)) = a

\* C15: a continuation round (its reply handled, or its call failed) leaves
\* the sentences collected before it in place and in order: the list before
\* the round is a prefix of the list after it
C15_AppendOnly ==
    [][(pc \in {"cont", "followup"}) => IsPrefix(sentences, sentences')]_vars

\* a first round has extended a non-empty list and a second round is under way
C15_Witness ==
    /\ variant = "freetext"
    /\ pc = "followup"
    /\ attempts = 2
    /\ supplied = 4
    /\ Len(sentences) = 4

\* the external calls of one request stay within their caps, and every
\* round is counted
BoundedWork ==
    /\ catalogCalls <= 1
    /\ genCalls <= 1 + MaxTries
    /\ tries <= MaxTries
    /\ contCalls <= MaxRounds
    /\ attempts <= MaxRounds
    /\ variant = "freetext" => (genCalls <= 1 /\ attempts = contCalls)
    /\ (variant = "schema" /\ pc = "cont") => attempts = contCalls - 1
    /\ (variant = "schema" /\ site = "summary") => attempts = contCalls

\* a round whose reply is handled is counted whether or not it added a sentence
RoundCounted ==
    /\ (pc = "cont" /\ site' # "error") => attempts' = attempts + 1
    /\ (pc = "followup" /\ pc' = "followup") => attempts' = attempts + 1

\* C16: one request makes at most 1 catalog call, 3 structured-generation
\* calls and 3 continuation calls, every round advances the attempt counter,
\* and when each external call returns or fails the handler responds
C16_TerminatesBounded ==
    /\ []BoundedWork
    /\ [][RoundCounted]_vars
    /\ <>(pc = "done" /\ responses = 1)

\* a generator that never supplied a sentence: every call of the budget was
\* made and the handler responded
C16_Witness ==
    /\ variant = "schema"
    /\ site = "summary"
    /\ catalogCalls = 1
    /\ genCalls = 1 + MaxTries
    /\ contCalls = MaxRounds
    /\ supplied = 0
    /\ sentences = <<>>

\* external calls issued and not yet returned or failed
Outstanding == catalogCalls + genCalls + contCalls - completed

\* C17: a request has at most one external call outstanding, and exactly one
\* while it is suspended; in the schema variant a generation call is issued
\* only after the catalog call has completed with a match, and a
\* continuation call only after every structured generation call has completed
C17_Sequential ==
    /\ Outstanding \in {0, 1}
    /\ (Outstanding = 1) <=> (pc \in {"catalog", "gen", "fix", "cont", "followup"})
    /\ variant = "schema" =>
          /\ pc = "catalog" => (genCalls = 0 /\ contCalls = 0)
          /\ genCalls >= 1 => (catalogCalls = 1 /\ completed >= 1 /\ ~book.null)
          /\ pc \in {"gen", "fix"} => contCalls = 0
          /\ contCalls >= 1 => completed >= catalogCalls + genCalls

\* the second continuation call is outstanding after the catalog call, the
\* initial generation and both re-prompts have completed
C17_Witness ==
    /\ variant = "schema"
    /\ pc = "cont"
    /\ genCalls = 1 + MaxTries
    /\ contCalls = 2
    /\ completed = 1 + genCalls + 1
    /\ Outstanding = 1

\* a title that is missing, empty or only whitespace
Blank(t) == \A i \in 1..Len(t) : t[i] \in Whitespace

NoExternalCall == catalogCalls = 0 /\ genCalls = 0 /\ contCalls = 0

\* C18: in the schema and free-text variants the handler answers a request
\* with a blank title in its first step, with the no-title body and without
\* issuing a catalog or generation call, and issues none afterwards
C18_BlankTitleNoCall ==
    /\ [](site = "noTitle" => (pc = "done" /\ responses = 1 /\ NoExternalCall))
    /\ [][(pc = "start" /\ variant # "first" /\ Blank(req.title)) =>
             (pc' = "done" /\ site' = "noTitle" /\ responses' = 1 /\ NoExternalCall')]_vars

\* a blank title answered by the free-text variant
C18_Witness ==
    /\ variant = "freetext"
    /\ site = "noTitle"
    /\ title = <<>>
    /\ responses = 1
    /\ completed = 0
    /\ NoExternalCall

\* requests of the guarded listener in flight
GuardedInFlight == gfetch + gjson

\* C19: the guarded listener has at most one request in flight; inProgress
\* is true and the button disabled exactly while it has one, so both are
\* reset when the request completes or throws; a click received while
\* inProgress is true returns at the guard and starts no request
C19_GuardedSingleFlight ==
    /\ [](/\ GuardedInFlight <= 1
          /\ inProgress <=> (GuardedInFlight = 1)
          /\ disabled = inProgress)
    /\ [][(clicks' = clicks + 1 /\ inProgress) =>
             (/\ gfetch' = gfetch
              /\ gjson' = gjson
              /\ started' = started
              /\ blocked' = blocked + 1)]_vars
    /\ [][(GuardedInFlight = 1 /\ GuardedInFlight' = 0) =>
             (~inProgress' /\ ~disabled')]_vars

\* a click was stopped at the guard, the request completed, and a later
\* click started a second request
C19_Witness ==
    /\ clicks = MaxClicks
    /\ blocked = 1
    /\ started = 2
    /\ gjson = 1
    /\ inProgress

====
